---- MODULE Spec2Model ----
(***************************************************************************)
(* Page-graph construction of the diary generator (enhanced_diary.py):     *)
(* which pages generate_diary emits, in which order, which bookmark each   *)
(* page declares, which internal links it emits, and the holiday table     *)
(* get_us_holidays builds for the configured year.                         *)
(***************************************************************************)
EXTENDS Integers, Sequences, FiniteSets, TLC

(***************************************************************************)
(* Program constants and model bounds                                      *)
(***************************************************************************)

\* main: "if year < 1900 or year > 2100" rejects the year
MinYear == 1900
MaxYear == 2100

\* number of entries of WISDOM_QUOTES the model keeps (the list has 40)
NumQuotes == 3

\* number of direct calls of get_unique_quote the quote specification follows
MaxQuoteCalls == 7

\* The years of the full-build specification: the century years 1900 (not
\* leap), 2000 (leap), 2100 (not leap) and CycleLen consecutive years from
\* CycleStart.  28 consecutive years without a skipped leap year contain
\* every combination of (weekday of Jan 1, leap / not leap), which is all a
\* build reads of the year.  The holiday specification reads every year.
CycleStart == 2001
CycleLen == 28

AllYears == MinYear..MaxYear
DiaryYears == ({MinYear, 2000, MaxYear} \cup (CycleStart..(CycleStart + CycleLen - 1)))
                 \cap AllYears

\* current_month=None of draw_month_tabs
NoMonth == 0

(***************************************************************************)
(* Calendar arithmetic used by the program (datetime.date, calendar)       *)
(***************************************************************************)

\* mutant: every fourth year is a leap year
isleap_julian(y) == y % 4 = 0

\* calendar.isleap(year)
isleap(y) == y % 4 = 0 /\ (y % 100 # 0 \/ y % 400 = 0)

\* calendar.mdays[month], February without the leap day
mdays(m) == <<31, 28, 31, 30, 31, 30, 31, 31, 30, 31, 30, 31>>[m]

\* calendar.monthrange(year, month)[1]
days_in_month(y, m) == mdays(m) + (IF m = 2 /\ isleap(y) THEN 1 ELSE 0)

RECURSIVE days_before_month(_, _)
days_before_month(y, m) ==
    IF m = 1 THEN 0 ELSE days_before_month(y, m - 1) + days_in_month(y, m - 1)

\* date.toordinal(): day 1 is 0001-01-01
toordinal(dt) ==
    LET y1 == dt[1] - 1
    IN  y1 * 365 + (y1 \div 4) - (y1 \div 100) + (y1 \div 400)
          + days_before_month(dt[1], dt[2]) + dt[3]

\* date.weekday(): Monday = 0 .. Sunday = 6
weekday(dt) == (toordinal(dt) + 6) % 7

\* the value standing for the ValueError date.replace raises
ValueError == <<0, 0, 0>>

\* date(year, month, day) is a valid date
ValidDate(dt) ==
    /\ dt[1] \in 1..9999
    /\ dt[2] \in 1..12
    /\ dt[3] \in 1..days_in_month(dt[1], dt[2])

\* d.replace(day=k): a new date, or ValueError when k is no day of the month
replace_day(dt, k) ==
    IF dt = ValueError THEN ValueError
    ELSE IF k \in 1..days_in_month(dt[1], dt[2]) THEN <<dt[1], dt[2], k>>
    ELSE ValueError

(***************************************************************************)
(* get_us_holidays                                                         *)
(***************************************************************************)

\* holidays[key] = name on a dict: a later write to the same key wins
DictPut(h, key, name) ==
    [k \in (DOMAIN h) \cup {key} |-> IF k = key THEN name ELSE h[k]]

EmptyDict == [k \in {} |-> ""]

\* mutant: the first Monday of January, the 14 days not added
mlk_day_first_monday(year) ==
    LET jan_1 == <<year, 1, 1>>
        days_to_monday == (7 - weekday(jan_1)) % 7
    IN  replace_day(jan_1, 1 + days_to_monday)

\* "MLK Day - Third Monday in January"
mlk_day(year) ==
    LET jan_1 == <<year, 1, 1>>
        days_to_monday == (7 - weekday(jan_1)) % 7
        first_monday == replace_day(jan_1, 1 + days_to_monday)
    IN  replace_day(first_monday, first_monday[3] + 14)

\* "Presidents Day - Third Monday in February"
presidents_day(year) ==
    LET feb_1 == <<year, 2, 1>>
        days_to_monday == (7 - weekday(feb_1)) % 7
        first_monday == replace_day(feb_1, 1 + days_to_monday)
    IN  replace_day(first_monday, first_monday[3] + 14)

\* the step back from May 31 as the code computes it
days_back_to_monday(year) == (weekday(<<year, 5, 31>>) + 1) % 7

\* "Memorial Day - Last Monday in May"
memorial_day(year) ==
    LET may_31 == <<year, 5, 31>>
    IN  replace_day(may_31, 31 - days_back_to_monday(year))

\* "Labor Day - First Monday in September"
labor_day(year) ==
    LET sep_1 == <<year, 9, 1>>
        days_to_monday == (7 - weekday(sep_1)) % 7
    IN  replace_day(sep_1, 1 + days_to_monday)

\* "Columbus Day - Second Monday in October"
columbus_day(year) ==
    LET oct_1 == <<year, 10, 1>>
        days_to_monday == (7 - weekday(oct_1)) % 7
        first_monday == replace_day(oct_1, 1 + days_to_monday)
    IN  replace_day(first_monday, first_monday[3] + 7)

\* mutant: the step to the first Thursday counts from Friday
thanksgiving_from_friday(year) ==
    LET nov_1 == <<year, 11, 1>>
        days_to_thursday == (4 - weekday(nov_1)) % 7
        first_thursday == replace_day(nov_1, 1 + days_to_thursday)
    IN  replace_day(first_thursday, first_thursday[3] + 21)

\* "Thanksgiving - Fourth Thursday in November"
thanksgiving(year) ==
    LET nov_1 == <<year, 11, 1>>
        days_to_thursday == (3 - weekday(nov_1)) % 7
        first_thursday == replace_day(nov_1, 1 + days_to_thursday)
    IN  replace_day(first_thursday, first_thursday[3] + 21)

\* the writes to the holidays dict, in the order the code makes them
holiday_writes(year) ==
    << <<<<year, 1, 1>>, "New Year's Day">>,
       <<<<year, 7, 4>>, "Independence Day">>,
       <<<<year, 11, 11>>, "Veterans Day">>,
       <<<<year, 12, 25>>, "Christmas Day">>,
       <<mlk_day(year), "Martin Luther King Jr. Day">>,
       <<presidents_day(year), "Presidents Day">>,
       <<memorial_day(year), "Memorial Day">>,
       <<labor_day(year), "Labor Day">>,
       <<columbus_day(year), "Columbus Day">>,
       <<thanksgiving(year), "Thanksgiving Day">> >>

RECURSIVE apply_writes(_, _)
apply_writes(h, ws) ==
    IF ws = <<>> THEN h
    ELSE apply_writes(DictPut(h, ws[1][1], ws[1][2]), Tail(ws))

\* get_us_holidays raises ValueError: some date.replace left its month
holidays_raise(year) ==
    \E i \in DOMAIN holiday_writes(year) : holiday_writes(year)[i][1] = ValueError

\* get_us_holidays(year), when it returns
get_us_holidays(year) == apply_writes(EmptyDict, holiday_writes(year))

\* is_weekend(date_obj)
is_weekend(dt) == weekday(dt) >= 5

(***************************************************************************)
(* Themes, quotes, anchors and the links of each page kind                 *)
(***************************************************************************)

\* mutant: the seasons start one month early
get_season_early(month) ==
    IF month \in {11, 12, 1} THEN "winter"
    ELSE IF month \in {2, 3, 4} THEN "spring"
    ELSE IF month \in {5, 6, 7} THEN "summer"
    ELSE "autumn"

\* SeasonalTheme.get_season(month)
get_season(month) ==
    IF month \in {12, 1, 2} THEN "winter"
    ELSE IF month \in {3, 4, 5} THEN "spring"
    ELSE IF month \in {6, 7, 8} THEN "summer"
    ELSE "autumn"

\* BackgroundGenerator.get_season_from_month(month)
get_season_from_month(month) ==
    IF month \in {12, 1, 2} THEN "winter"
    ELSE IF month \in {3, 4, 5} THEN "spring"
    ELSE IF month \in {6, 7, 8} THEN "summer"
    ELSE "autumn"

\* the head of the WISDOM_QUOTES list
QuoteTexts ==
    << "The journey of a thousand miles begins with one step. - Lao Tzu",
       "In the middle of difficulty lies opportunity. - Albert Einstein",
       "Life is what happens when you're busy making other plans. - John Lennon",
       "The only way to do great work is to love what you do. - Steve Jobs",
       "Be yourself; everyone else is already taken. - Oscar Wilde",
       "The only way out is through. - Robert Frost" >>

WISDOM_QUOTES == SubSeq(QuoteTexts, 1, NumQuotes)

Range(f) == {f[i] : i \in DOMAIN f}

\* mutant: the used quotes are not filtered out
available_quotes_unfiltered(used) == Range(WISDOM_QUOTES)

\* get_unique_quote: the quotes random.choice may return
available_quotes(used) ==
    LET avail == {q \in Range(WISDOM_QUOTES) : q \notin used}
    IN  IF avail = {} THEN Range(WISDOM_QUOTES) ELSE avail

\* mutant: quotes_used is not cleared on exhaustion
quotes_used_after_no_clear(used, q) == used \cup {q}

\* get_unique_quote: quotes_used after the call returned quote q
quotes_used_after(used, q) ==
    LET avail == {x \in Range(WISDOM_QUOTES) : x \notin used}
    IN  (IF avail = {} THEN {} ELSE used) \cup {q}

\* f"month_{month_num}"
month_anchor(m) == "month_" \o ToString(m)

\* mutant: no separator between month and day
day_anchor_unseparated(m, d) == "day_" \o ToString(m) \o ToString(d)

\* f"day_{month_num}_{day}"
day_anchor(m, d) == "day_" \o ToString(m) \o "_" \o ToString(d)

\* mutant: no zero padding
two_digits_unpadded(n) == ToString(n)

\* f"{n:02d}"
two_digits(n) == IF n < 10 THEN "0" \o ToString(n) ELSE ToString(n)

\* f'activities_{month_num:02d}{day_num:02d}', f'notes_{month_num:02d}{day_num:02d}'
activities_field(m, d) == "activities_" \o two_digits(m) \o two_digits(d)
notes_field(m, d) == "notes_" \o two_digits(m) \o two_digits(d)

\* hasattr(self, 'personal_info_manager') on a generator whose draw_month_tabs
\* is extended by modify_draw_month_tabs or by hand
VARIABLE personal_info_manager

\* current_page and current_page.startswith('personal'); "" stands for None
on_personal_page(current_page) ==
    Len(current_page) >= 8 /\ SubSeq(current_page, 1, 8) = "personal"

\* draw_personal_info_tab(c, current_page): the link it adds
draw_personal_info_tab(current_page) ==
    IF on_personal_page(current_page) THEN <<>> ELSE <<"personal_info_1">>

\* draw_month_tabs: the tab the loop draws in the accent colour
tab_highlighted(current_month, i) == current_month = i

\* mutant: every tab gets a linkRect
tab_linked_always(current_month, i) == TRUE

\* draw_month_tabs: the tab gets a linkRect ("Don't link to current page")
tab_linked(current_month, i) == current_month # i

RECURSIVE tab_links(_, _)
\* the linkRect targets of tabs i..12, in drawing order
tab_links(current_month, i) ==
    IF i > 12 THEN <<>>
    ELSE (IF tab_linked(current_month, i) THEN <<month_anchor(i)>> ELSE <<>>)
            \o tab_links(current_month, i + 1)

\* draw_month_tabs(c, current_month): what it emits; the patched method goes
\* on to draw_personal_info_tab(c)
draw_month_tabs(current_month) ==
    [ links |-> tab_links(current_month, 1)
                  \o (IF personal_info_manager THEN draw_personal_info_tab("") ELSE <<>>),
      highlighted |-> {i \in 1..12 : tab_highlighted(current_month, i)} ]

\* calendar.monthcalendar(year, month): weeks of 7 cells, 0 outside the month
monthcalendar(y, m) ==
    LET first == weekday(<<y, m, 1>>)
        ndays == days_in_month(y, m)
        nweeks == (first + ndays + 6) \div 7
        cell(k) == IF k - first \in 1..ndays THEN k - first ELSE 0
    IN  [w \in 1..nweeks |-> [i \in 1..7 |-> cell(7 * (w - 1) + i)]]

RECURSIVE week_links_no_skip(_, _, _)
\* mutant: the cells outside the month are not skipped
week_links_no_skip(m, week, i) ==
    IF i > Len(week) THEN <<>>
    ELSE <<day_anchor(m, week[i])>> \o week_links_no_skip(m, week, i + 1)

RECURSIVE week_links(_, _, _)
\* create_month_page: the day links of one week ("if day == 0: continue")
week_links(m, week, i) ==
    IF i > Len(week) THEN <<>>
    ELSE (IF week[i] = 0 THEN <<>> ELSE <<day_anchor(m, week[i])>>)
            \o week_links(m, week, i + 1)

RECURSIVE cal_links_short(_, _, _)
\* mutant: the last week of the grid is left out
cal_links_short(m, cal, w) ==
    IF w >= Len(cal) THEN <<>>
    ELSE week_links(m, cal[w], 1) \o cal_links_short(m, cal, w + 1)

RECURSIVE cal_links(_, _, _)
\* create_month_page: the day links of the calendar grid, week after week
cal_links(m, cal, w) ==
    IF w > Len(cal) THEN <<>>
    ELSE week_links(m, cal[w], 1) \o cal_links(m, cal, w + 1)

\* mutant: create_day_page passes no current month
day_page_no_current_month(month_num) == NoMonth

\* the month create_day_page passes to draw_month_tabs
day_page_current_month(month_num) == month_num

\* mutant: the cover passes the month of its background as current month
cover_page_current_month ==
    LET tabs == draw_month_tabs(6)
    IN  [ kind |-> "cover", month |-> 0, day |-> 0,
          theme |-> 6, palette |-> "none",
          bookmarks |-> <<>>,
          links |-> tabs.links,
          highlighted |-> tabs.highlighted,
          fields |-> <<>> ]

\* the page create_cover_page draws (no bookmarkPage call)
cover_page ==
    LET tabs == draw_month_tabs(NoMonth)
    IN  [ kind |-> "cover", month |-> 0, day |-> 0,
          theme |-> 6, palette |-> "none",
          bookmarks |-> <<>>,
          links |-> tabs.links,
          highlighted |-> tabs.highlighted,
          fields |-> <<>> ]

\* mutant: the month page has the tabs only, its calendar cells are not linked
month_page_without_calendar(y, month_num) ==
    LET tabs == draw_month_tabs(month_num)
    IN  [ kind |-> "month", month |-> month_num, day |-> 0,
          theme |-> month_num, palette |-> get_season(month_num),
          bookmarks |-> <<month_anchor(month_num)>>,
          links |-> tabs.links,
          highlighted |-> tabs.highlighted,
          fields |-> <<>> ]

\* the page create_month_page(c, month_num) draws
month_page(y, month_num) ==
    LET tabs == draw_month_tabs(month_num)
    IN  [ kind |-> "month", month |-> month_num, day |-> 0,
          theme |-> month_num, palette |-> get_season(month_num),
          bookmarks |-> <<month_anchor(month_num)>>,
          links |-> tabs.links \o cal_links(month_num, monthcalendar(y, month_num), 1),
          highlighted |-> tabs.highlighted,
          fields |-> <<>> ]

\* the page create_day_page(c, month_num, day_num) draws
day_page(y, month_num, day_num) ==
    LET tabs == draw_month_tabs(day_page_current_month(month_num))
    IN  [ kind |-> "day", month |-> month_num, day |-> day_num,
          theme |-> month_num, palette |-> get_season(month_num),
          bookmarks |-> <<day_anchor(month_num, day_num)>>,
          links |-> tabs.links,
          highlighted |-> tabs.highlighted,
          fields |-> <<activities_field(month_num, day_num),
                       notes_field(month_num, day_num)>> ]

NoPage ==
    [ kind |-> "none", month |-> 0, day |-> 0, theme |-> 0, palette |-> "none",
      bookmarks |-> <<>>,
      links |-> <<>>, highlighted |-> {}, fields |-> <<>> ]

(***************************************************************************)
(* Personal-info pages                                                     *)
(***************************************************************************)

\* A4[1], the page height in points, in hundredths
PageHeight == 84189

\* PersonalInfoManager.personal_info_fields: the field names of each page
personal_info_fields ==
    [ page1 |-> << "full_name", "date_of_birth", "place_of_birth", "nationality",
                   "occupation", "company", "work_address", "work_phone",
                   "work_email", "home_address", "home_phone", "personal_email",
                   "emergency_name", "emergency_phone", "emergency_relationship" >>,
      page2 |-> << "blood_type", "allergies", "medical_conditions", "medications",
                   "doctor_name", "doctor_phone", "insurance_provider",
                   "insurance_policy", "passport_number", "passport_expiry",
                   "drivers_license", "license_expiry", "bank_name",
                   "account_number", "ssn_id" >> ]

\* create_form_table: the text fields created from field i on, current_y in
\* hundredths of a point; the loop breaks once current_y < 100
RECURSIVE form_fields(_, _, _)
form_fields(fields, i, current_y) ==
    IF i > Len(fields) THEN <<>>
    ELSE <<fields[i]>> \o
         (IF current_y - 3500 < 10000 THEN <<>>
          ELSE form_fields(fields, i + 1, current_y - 3500))

\* create_form_table(c, fields, start_y, colors)
create_form_table(fields, start_y) == form_fields(fields, 1, start_y)

personal_anchor(n) == "personal_info_" \o ToString(n)

\* mutant: the "Next" arrow of the last page leads back to the first
next_link_wrapping(n) == <<personal_anchor((n % 3) + 1)>>

\* draw_page_navigation: the link of the "Next" arrow
next_link(n) == IF n < 3 THEN <<personal_anchor(n + 1)>> ELSE <<>>

\* draw_page_navigation: the link of the "Previous" arrow
previous_link(n) == IF n > 1 THEN <<personal_anchor(n - 1)>> ELSE <<>>

\* draw_page_navigation: the links of the page indicators "Page 1" .. "Page 3"
indicator_links(n) ==
    SelectSeq(<<personal_anchor(1), personal_anchor(2), personal_anchor(3)>>,
              LAMBDA a : a # personal_anchor(n))

\* draw_page_navigation(c, current_page_num): the links it adds
draw_page_navigation(n) == indicator_links(n) \o previous_link(n) \o next_link(n)

\* the page create_personal_info_page_n draws when date.today() is in month today
personal_info_page(n, today) ==
    LET tabs == draw_month_tabs(NoMonth)
    IN  [ kind |-> "personal", month |-> 0, day |-> n,
          theme |-> today, palette |-> get_season(today),
          bookmarks |-> <<personal_anchor(n)>>,
          links |-> tabs.links \o draw_personal_info_tab(personal_anchor(n))
                      \o draw_page_navigation(n),
          highlighted |-> tabs.highlighted,
          fields |-> CASE n = 1 -> create_form_table(personal_info_fields.page1,
                                                     PageHeight - 15000)
                       [] n = 2 -> create_form_table(personal_info_fields.page2,
                                                     PageHeight - 15000)
                       [] OTHER -> <<"personal_additional_notes">> ]

\* draw_personal_info_tab: the season whose colours the tab is drawn in when
\* date.today() is in month today
personal_info_tab_season(today) == get_season(today)

\* the page <<kind, month, day>> of the diary of year y as a run draws it when
\* date.today() is in month today
drawn_page(id, y, today) ==
    CASE id[1] = "day" -> day_page(y, id[2], id[3])
      [] id[1] = "month" -> month_page(y, id[2])
      [] id[1] = "personal" -> personal_info_page(id[3], today)
      [] OTHER -> cover_page

\* the seasons a run uses on that page: of the background, of the palette of
\* the page, and of the personal-info tab where the page has one
page_seasons(id, y, today) ==
    LET p == drawn_page(id, y, today)
    IN  [ background |-> get_season_from_month(p.theme),
          palette |-> p.palette,
          tab |-> IF personal_info_manager \/ id[1] = "personal"
                  THEN personal_info_tab_season(today) ELSE "none" ]

\* the pages whose theming is compared
ThemedPages ==
    {<<"cover", 0, 0>>} \cup {<<"month", m, 0>> : m \in 1..12}
        \cup {<<"day", m, d>> : m \in 1..12, d \in {1, 28}}
        \cup {<<"personal", 0, n>> : n \in 1..3}

NoThemed == [ id |-> <<"none", 0, 0>>, year |-> 0, today |-> <<0, 0>>,
              seasons |-> <<>>, drawn |-> FALSE ]

(***************************************************************************)
(* Text layout                                                             *)
(***************************************************************************)

\* the longest word sequence of the generated wrap_text inputs
MaxWords == 3

\* str.split(): the characters that separate words
Whitespace == {" ", "\t", "\n"}

RECURSIVE split_from(_, _, _, _)
split_from(text, i, word, words) ==
    IF i > Len(text)
    THEN IF word = "" THEN words ELSE Append(words, word)
    ELSE IF SubSeq(text, i, i) \in Whitespace
    THEN split_from(text, i + 1, "", IF word = "" THEN words ELSE Append(words, word))
    ELSE split_from(text, i + 1, word \o SubSeq(text, i, i), words)

\* text.split()
split(text) == split_from(text, 1, "", <<>>)

\* ' '.join(words)
RECURSIVE join(_)
join(words) ==
    IF words = <<>> THEN ""
    ELSE IF Len(words) = 1 THEN words[1]
    ELSE words[1] \o " " \o join(Tail(words))

\* mutant: every test line is accepted
fits_always(test_line, max_width, font_size) == TRUE

\* wrap_text: len(test_line) * font_size * 0.6 <= max_width, in tenths
fits(test_line, max_width, font_size) ==
    Len(test_line) * font_size * 6 <= max_width * 10

\* mutant: the collected words are dropped instead of appended
flush_dropped(current_line, lines) == lines

\* wrap_text: if current_line: lines.append(' '.join(current_line))
flush(current_line, lines) ==
    IF current_line # <<>> THEN Append(lines, join(current_line)) ELSE lines

\* wrap_text: the loop over words, from word i on
RECURSIVE wrap_words(_, _, _, _, _, _)
wrap_words(words, i, current_line, lines, max_width, font_size) ==
    IF i > Len(words)
    THEN flush(current_line, lines)
    ELSE IF fits(join(Append(current_line, words[i])), max_width, font_size)
    THEN wrap_words(words, i + 1, Append(current_line, words[i]), lines,
                    max_width, font_size)
    ELSE wrap_words(words, i + 1, <<words[i]>>, flush(current_line, lines),
                    max_width, font_size)

\* DiaryGenerator.wrap_text(text, max_width, font_name, font_size)
wrap_text(text, max_width, font_size) ==
    wrap_words(split(text), 1, <<>>, <<>>, max_width, font_size)

\* the quote of the cover-page scenario, wrapped as create_cover_page does
JourneyQuote == "The journey of a thousand miles begins with one step."

WrapTokens == {"a", "bbb", "ddddd"}

\* input texts: up to MaxWords tokens joined by single spaces, texts with
\* irregular whitespace, and the quote
WrapTexts ==
    {join(ws) : ws \in UNION {[1..n -> WrapTokens] : n \in 0..MaxWords}}
        \cup {"   ", "  a   bbb ", "ddddd\ta\n\nbbb a", JourneyQuote}

WrapWidths == {0, 6, 18, 30, 36, 400}

WrapFontSizes == {10, 12}

NoWrap ==
    [ text |-> "", max_width |-> 0, font_size |-> 0, lines |-> <<>>,
      returned |-> FALSE ]

(***************************************************************************)
(* Arguments and credentials                                               *)
(***************************************************************************)

\* the "Enter password" prompts a run is followed for
MaxPrompts == 4

\* get_password(min_length=4, max_attempts=3)
min_length == 4
max_attempts == 3

Digits == <<"0", "1", "2", "3", "4", "5", "6", "7", "8", "9">>
UpperCase == "ABCDEFGHIJKLMNOPQRSTUVWXYZ"
LowerCase == "abcdefghijklmnopqrstuvwxyz"
SpecialChars == "!@#$%^&*()_+-=[]{}|;:,.<>?"

Chars(s) == {SubSeq(s, i, i) : i \in 1..Len(s)}

\* str.strip()
RECURSIVE lstrip(_)
lstrip(s) ==
    IF s # "" /\ SubSeq(s, 1, 1) \in Whitespace THEN lstrip(SubSeq(s, 2, Len(s))) ELSE s

RECURSIVE rstrip(_)
rstrip(s) ==
    IF s # "" /\ SubSeq(s, Len(s), Len(s)) \in Whitespace
    THEN rstrip(SubSeq(s, 1, Len(s) - 1)) ELSE s

strip(s) == rstrip(lstrip(s))

\* str.lower()
RECURSIVE lower(_)
lower(s) ==
    IF s = "" THEN ""
    ELSE LET ch == SubSeq(s, 1, 1)
             lc == IF ch \in Chars(UpperCase)
                   THEN LET i == CHOOSE i \in 1..Len(UpperCase) : SubSeq(UpperCase, i, i) = ch
                        IN  SubSeq(LowerCase, i, i)
                   ELSE ch
         IN  lc \o lower(SubSeq(s, 2, Len(s)))

\* pattern in s
Contains(s, pattern) ==
    \E i \in 1..(Len(s) - Len(pattern) + 1) : SubSeq(s, i, i + Len(pattern) - 1) = pattern

DigitValue(ch) == (CHOOSE i \in 1..10 : Digits[i] = ch) - 1

\* the value of a string of digits and underscores, left to right
RECURSIVE digits_value(_, _)
digits_value(s, acc) ==
    IF s = "" THEN acc
    ELSE IF SubSeq(s, 1, 1) = "_" THEN digits_value(SubSeq(s, 2, Len(s)), acc)
    ELSE digits_value(SubSeq(s, 2, Len(s)), 10 * acc + DigitValue(SubSeq(s, 1, 1)))

\* int(s): surrounding whitespace, an optional sign, then digits with single
\* underscores between them; anything else raises ValueError (ok = FALSE)
int(s) ==
    LET t == strip(s)
        signed == t # "" /\ SubSeq(t, 1, 1) \in {"+", "-"}
        body == IF signed THEN SubSeq(t, 2, Len(t)) ELSE t
        wellformed ==
            /\ body # ""
            /\ Chars(body) \subseteq Range(Digits) \cup {"_"}
            /\ SubSeq(body, 1, 1) # "_"
            /\ SubSeq(body, Len(body), Len(body)) # "_"
            /\ ~Contains(body, "__")
        magnitude == digits_value(body, 0)
    IN  IF wellformed
        THEN [ ok |-> TRUE,
               value |-> IF signed /\ SubSeq(t, 1, 1) = "-" THEN 0 - magnitude
                         ELSE magnitude ]
        ELSE [ ok |-> FALSE, value |-> 0 ]

\* mutant: the bounds themselves are rejected
year_in_range_exclusive(y) == ~(y <= MinYear \/ y >= MaxYear)

\* main: not (year < 1900 or year > 2100)
year_in_range(y) == ~(y < MinYear \/ y > MaxYear)

\* mutant: the attempt budget is never exhausted
attempts_left_always(a) == TRUE

\* get_password: while attempts < max_attempts
attempts_left(a) == a < max_attempts

\* mutant: a pass of the loop does not count
attempts_not_counted(a) == a

\* get_password: attempts += 1
attempts_after(a) == a + 1

\* mutant: any answer accepts the weak password
accepts_any(choice) == TRUE

\* get_password_with_strength_check: choice in ['y', 'yes']
accepts(choice) == choice \in {"y", "yes"}

\* get_password_with_strength_check: choice in ['n', 'no', 'r', 'retry']
declines(choice) == choice \in {"n", "no", "r", "retry"}

\* validate_password_strength(password)[0]
validate_password_strength(pw) ==
    LET has_upper == Chars(pw) \cap Chars(UpperCase) # {}
        has_lower == Chars(pw) \cap Chars(LowerCase) # {}
        has_digit == Chars(pw) \cap Range(Digits) # {}
        has_special == Chars(pw) \cap Chars(SpecialChars) # {}
        char_types == Cardinality({t \in {<<1, has_upper>>, <<2, has_lower>>,
                                          <<3, has_digit>>, <<4, has_special>>} : t[2]})
        common_patterns == {"123", "abc", "password", "qwerty", "111", "000"}
    IN  /\ ~(Len(pw) < 8 /\ Len(pw) < 6)
        /\ ~(char_types < 2)
        /\ ~(\E pattern \in common_patterns : Contains(lower(pw), pattern))

\* PDFSecurity.create_encryption(password, allow_printing, allow_copying,
\* allow_modification, allow_annotation)
create_encryption(pw, allow_printing, allow_copying, allow_modification, allow_annotation) ==
    [ userPassword |-> pw,
      canPrint |-> IF allow_printing THEN 1 ELSE 0,
      canModify |-> IF allow_modification THEN 1 ELSE 0,
      canCopy |-> IF allow_copying THEN 1 ELSE 0,
      canAnnotate |-> IF allow_annotation THEN 1 ELSE 0 ]

\* PDFSecurity.create_high_security_encryption(password)
create_high_security_encryption(pw) == create_encryption(pw, TRUE, FALSE, FALSE, TRUE)

\* main: enc before get_secure_password_for_diary has returned
NoEncryption ==
    [ userPassword |-> "", canPrint |-> 0, canModify |-> 0, canCopy |-> 0,
      canAnnotate |-> 0 ]

\* the encryption object a caller of DiaryGenerator passes in
CallerEncryption == create_high_security_encryption("Tr4vel!Log")

\* mutant: the ValueError of a failed password entry is swallowed
password_error_ignored == [ pc |-> "Configuring", exit_status |-> 0 ]

\* main: the ValueError of get_password is not caught: traceback, status 1
password_error == [ pc |-> "Exited", exit_status |-> 1 ]

\* sys.argv[1:] of the runs followed
ArgInputs ==
    { <<>>, <<"2024", "2025">>, <<"">>, <<"abc">>, <<"20.5">>, <<"0x7D0">>,
      <<"-2000">>, <<"1899">>, <<"1900">>, <<"2100">>, <<"2101">>, <<"21000">> }

\* what the user does at a getpass prompt: types a line, hits Ctrl-C, or the
\* input ends
Typed(text) == [ kind |-> "text", text |-> text ]
KeyboardInterrupt == [ kind |-> "KeyboardInterrupt", text |-> "" ]
EOFError == [ kind |-> "EOFError", text |-> "" ]

\* too short, whitespace only, short, one character class, common pattern, strong
PasswordTexts == { "ab1", "      ", "Ab1!x", "diarybook", "Password1!", "Tr4vel!Log" }

PasswordEntries == {Typed(t) : t \in PasswordTexts} \cup {KeyboardInterrupt, EOFError}

\* the entries of the runs that go on to build the diary
SamplePasswordEntries ==
    {Typed(t) : t \in {"ab1", "diarybook", "Tr4vel!Log"}} \cup {KeyboardInterrupt, EOFError}

\* what the user does at the "Continue with this password?" prompt
ChoiceEntries ==
    {Typed(t) : t \in {"y", " YES ", "n", "No", "r", "retry", "x", ""}}
        \cup {KeyboardInterrupt, EOFError}

(***************************************************************************)
(* State                                                                   *)
(***************************************************************************)

VARIABLES
    pc,           \* position of the run: Configuring, GeneratingCover, ...
    year,         \* DiaryGenerator.year (0 before construction)
    holidays,     \* DiaryGenerator.holidays
    quotes_used,  \* DiaryGenerator.quotes_used
    use_images,   \* BackgroundGenerator.use_images
    month,        \* loop variable of generate_diary
    day,          \* loop variable of generate_diary
    day_count,    \* generate_diary: day_count
    total_days,   \* generate_diary: total_days
    page,         \* the page closed by the last showPage
    background,   \* how the background of that page was drawn
    pages,        \* the pages of the canvas so far, in order: <<kind, month, day>>
    bookmarks,    \* canvas: the anchors of the bookmarkPage calls so far, in order
    linked,       \* canvas: the targets of all linkRect calls so far
    saved,        \* c.save() has written the file
    quote_log,    \* the quotes get_unique_quote returned to a direct caller, in order
    wrap,         \* a direct call of wrap_text: its arguments and the lines returned
    argv,         \* main: sys.argv[1:]
    exit_status,  \* main: the status the process ends with (0 unless it failed)
    attempts,     \* get_password: attempts
    prompts,      \* the "Enter password" prompts shown in this run so far
    password,     \* get_password_with_strength_check: password
    themed,       \* one page drawn in two runs that differ in date.today()
    enc           \* main: enc, the encryption object handed to DiaryGenerator

vars == << pc, year, holidays, quotes_used, use_images, month, day, day_count,
           total_days, page, background, pages, bookmarks, linked, saved,
           quote_log, wrap, argv, exit_status, attempts, prompts, password, enc,
           personal_info_manager, themed >>

\* the generator, its canvas and the position of the run
generator_vars == << pc, year, holidays, quotes_used, use_images, month, day,
                     day_count, total_days, page, background, pages, bookmarks,
                     linked, saved, quote_log, personal_info_manager, themed >>

\* the generator and its canvas
build_vars == << year, holidays, quotes_used, use_images, month, day, day_count,
                 total_days, page, background, pages, bookmarks, linked, saved,
                 quote_log, personal_info_manager, themed >>

\* the state of main outside the generator
main_vars == << argv, exit_status, attempts, prompts, password, enc >>

\* the generator and its canvas, before construction
NotConstructed ==
    /\ year = 0
    /\ holidays = EmptyDict
    /\ quotes_used = {}
    /\ use_images = FALSE
    /\ month = 0
    /\ day = 0
    /\ day_count = 0
    /\ total_days = 0
    /\ page = NoPage
    /\ background = "none"
    /\ pages = <<>>
    /\ bookmarks = <<>>
    /\ linked = {}
    /\ saved = FALSE
    /\ quote_log = <<>>

\* main is not running: the generator is used by a caller of its own
CalledDirectly ==
    /\ argv = <<>>
    /\ exit_status = 0
    /\ attempts = 0
    /\ prompts = 0
    /\ password = ""
    /\ enc = CallerEncryption

\* DiaryGenerator(year, enc) is about to be constructed by a caller that holds
\* an encryption object
Init ==
    /\ pc = "Configuring"
    /\ NotConstructed
    /\ CalledDirectly
    /\ wrap = NoWrap
    /\ personal_info_manager = FALSE
    /\ themed = NoThemed

\* the same, the generator patched as the setup instructions of
\* PersonalInfoManager.py say: it holds a personal_info_manager and its
\* draw_month_tabs ends with the call of draw_personal_info_tab
InitIntegrated ==
    /\ pc = "Configuring"
    /\ NotConstructed
    /\ CalledDirectly
    /\ wrap = NoWrap
    /\ personal_info_manager = TRUE
    /\ themed = NoThemed

(***************************************************************************)
(* Operations                                                              *)
(***************************************************************************)

\* mutant: a failed drawImage leaves use_images as it was
use_images_kept(using, image_ok) == using

\* draw_background_image: use_images after drawImage succeeded or raised
use_images_after(using, image_ok) == using /\ image_ok

\* draw_seasonal_background: how the background is drawn: the image, the
\* generated background after a failed drawImage, or the generated background
\* without an attempt
background_mode(using, image_ok) ==
    IF using THEN (IF image_ok THEN "image" ELSE "fallback") ELSE "generated"

\* BackgroundGenerator.draw_seasonal_background: drawImage succeeds or raises
\* (image_ok); a failure clears use_images and the generated background of the
\* season is drawn instead
DrawSeasonalBackground(theme_month, image_ok) ==
    /\ background' = [ season |-> get_season_from_month(theme_month),
                       mode |-> background_mode(use_images, image_ok) ]
    /\ use_images' = use_images_after(use_images, image_ok)

\* mutant: the tabs and links of a page are drawn only when no image drawing
\* failed on it
EmitPage_links_need_image(p, image_ok, q) ==
    /\ DrawSeasonalBackground(p.theme, image_ok)
    /\ q \in available_quotes(quotes_used)
    /\ quotes_used' = quotes_used_after(quotes_used, q)
    /\ page' = [p EXCEPT !.links = IF use_images /\ ~image_ok THEN <<>> ELSE p.links]
    /\ pages' = Append(pages, <<p.kind, p.month, p.day>>)
    /\ bookmarks' = bookmarks \o p.bookmarks
    /\ linked' = linked \cup Range(page'.links)

\* one page: background, tabs, bookmark, links, quote, showPage
EmitPage(p, image_ok, q) ==
    /\ DrawSeasonalBackground(p.theme, image_ok)
    /\ q \in available_quotes(quotes_used)
    /\ quotes_used' = quotes_used_after(quotes_used, q)
    /\ page' = p
    /\ pages' = Append(pages, <<p.kind, p.month, p.day>>)
    /\ bookmarks' = bookmarks \o p.bookmarks
    /\ linked' = linked \cup Range(p.links)

\* main: the year passed validation; DiaryGenerator(year, enc) is built
Configure(y) ==
    /\ pc = "Configuring"
    /\ year' = y
    /\ IF holidays_raise(y)
       THEN /\ pc' = "Aborted"
            /\ UNCHANGED << holidays, use_images >>
       ELSE /\ pc' = "GeneratingCover"
            /\ holidays' = get_us_holidays(y)
            /\ \E found \in BOOLEAN : use_images' = found
    /\ quotes_used' = {}
    /\ UNCHANGED << month, day, day_count, total_days, page, background,
                    pages, bookmarks, linked, saved, quote_log, wrap, main_vars,
                    personal_info_manager, themed >>

\* generate_diary: self.create_cover_page(c)
CreateCoverPage ==
    /\ pc = "GeneratingCover"
    /\ \E ok \in (IF use_images THEN BOOLEAN ELSE {FALSE}) :
         \E q \in Range(WISDOM_QUOTES) : EmitPage(cover_page, ok, q)
    /\ pc' = "GeneratingMonths"
    /\ month' = 1
    /\ UNCHANGED << year, holidays, day, day_count, total_days, saved, quote_log, wrap, main_vars,
                    personal_info_manager, themed >>

\* generate_diary: for month in range(1, 13): self.create_month_page(c, month);
\* after the last month, total_days and day_count are set and the day loop starts
CreateMonthPage ==
    /\ pc = "GeneratingMonths"
    /\ \E ok \in (IF use_images THEN BOOLEAN ELSE {FALSE}) :
         \E q \in Range(WISDOM_QUOTES) : EmitPage(month_page(year, month), ok, q)
    /\ IF month < 12
       THEN /\ month' = month + 1
            /\ UNCHANGED << pc, day, day_count, total_days >>
       ELSE /\ pc' = "GeneratingDays"
            /\ total_days' = (IF isleap(year) THEN 366 ELSE 365)
            /\ day_count' = 0
            /\ month' = 1
            /\ day' = 1
    /\ UNCHANGED << year, holidays, saved, quote_log, wrap, main_vars,
                    personal_info_manager, themed >>

\* mutant: range(1, days_in_month), the last day left out
last_day_exclusive(y, m) == days_in_month(y, m) - 1

\* generate_diary: the last day of "for day in range(1, days_in_month + 1)"
last_day(y, m) == days_in_month(y, m)

\* generate_diary: one iteration of the day loop
CreateDayPage ==
    /\ pc = "GeneratingDays"
    /\ day_count' = day_count + 1
    /\ \E ok \in (IF use_images THEN BOOLEAN ELSE {FALSE}) :
         \E q \in Range(WISDOM_QUOTES) : EmitPage(day_page(year, month, day), ok, q)
    /\ IF day < last_day(year, month)
       THEN /\ day' = day + 1
            /\ UNCHANGED << pc, month >>
       ELSE IF month < 12
       THEN /\ month' = month + 1
            /\ day' = 1
            /\ UNCHANGED pc
       ELSE /\ pc' = "Finalizing"
            /\ UNCHANGED << month, day >>
    /\ UNCHANGED << year, holidays, total_days, saved, quote_log, wrap, main_vars,
                    personal_info_manager, themed >>

\* generate_diary: c.save()
Save ==
    /\ pc = "Finalizing"
    /\ saved' = TRUE
    /\ pc' = "Done"
    /\ UNCHANGED << year, holidays, quotes_used, use_images, month, day, day_count,
                    total_days, page, background, pages, bookmarks, linked,
                    quote_log, wrap, main_vars,
                    personal_info_manager, themed >>

\* integrate_personal_info_with_diary(self, c), added to generate_diary between
\* two of its steps: PersonalInfoManager(self).generate_all_personal_info_pages(c)
GenerateAllPersonalInfoPages ==
    /\ \/ pc = "GeneratingMonths" /\ month = 1
       \/ pc = "GeneratingDays" /\ day_count = 0
       \/ pc = "Finalizing"
    /\ personal_anchor(1) \notin Range(bookmarks)
    /\ \E today \in 1..12 :
         \E failed_on \in (IF use_images THEN 0..3 ELSE {0}) :
           LET new == [n \in 1..3 |-> personal_info_page(n, today)]
               using3 == use_images_after(use_images, failed_on \notin {1, 2})
           IN  /\ background' = [ season |-> get_season_from_month(today),
                                  mode |-> background_mode(using3, failed_on # 3) ]
               /\ use_images' = use_images_after(using3, failed_on # 3)
               /\ page' = new[3]
               /\ pages' = pages \o [n \in 1..3 |-> <<"personal", 0, n>>]
               /\ bookmarks' = bookmarks \o new[1].bookmarks \o new[2].bookmarks
                                 \o new[3].bookmarks
               /\ linked' = linked \cup Range(new[1].links) \cup Range(new[2].links)
                              \cup Range(new[3].links)
    /\ UNCHANGED << pc, year, holidays, quotes_used, month, day, day_count,
                    total_days, saved, quote_log, wrap, main_vars,
                    personal_info_manager, themed >>

ConfigureDiary == \E y \in DiaryYears : Configure(y)

ConfigureAny == \E y \in AllYears : Configure(y)

Next ==
    \/ ConfigureDiary
    \/ CreateCoverPage
    \/ CreateMonthPage
    \/ CreateDayPage
    \/ Save

\* get_unique_quote called on a generator that has drawn no page yet and
\* returning quote q
ReturnQuote(q) ==
    /\ pc = "GeneratingCover"
    /\ Len(quote_log) < MaxQuoteCalls
    /\ q \in available_quotes(quotes_used)
    /\ quotes_used' = quotes_used_after(quotes_used, q)
    /\ quote_log' = Append(quote_log, q)
    /\ UNCHANGED << pc, year, holidays, use_images, month, day, day_count,
                    total_days, page, background, pages, bookmarks, linked, saved,
                    wrap, main_vars,
                    personal_info_manager, themed >>

\* DiaryGenerator.get_unique_quote()
GetUniqueQuote == \E q \in Range(WISDOM_QUOTES) : ReturnQuote(q)

ConfigureBounds == \E y \in {MinYear, MaxYear} : Configure(y)

ConfigureSample == \E y \in {2000, MaxYear} : Configure(y)

\* a build with or without the personal-info pages
NextPersonal ==
    \/ ConfigureSample
    \/ CreateCoverPage
    \/ GenerateAllPersonalInfoPages
    \/ CreateMonthPage
    \/ CreateDayPage
    \/ Save

NextQuotes ==
    \/ ConfigureBounds
    \/ GetUniqueQuote

\* the program is started with an argument list from ArgInputs
InitMain ==
    /\ pc = "Start"
    /\ NotConstructed
    /\ wrap = NoWrap
    /\ personal_info_manager = FALSE
    /\ themed = NoThemed
    /\ argv \in ArgInputs
    /\ exit_status = 0
    /\ attempts = 0
    /\ prompts = 0
    /\ password = ""
    /\ enc = NoEncryption

\* the next position of main with its locals
Goto(position, status, a, pw, e) ==
    /\ pc' = position
    /\ exit_status' = status
    /\ attempts' = a
    /\ password' = pw
    /\ enc' = e

\* sys.exit(status), or an uncaught exception that ends the process with status
Exit(status) == Goto("Exited", status, attempts, password, enc)

\* get_password raises ValueError
RaiseValueError ==
    Goto(password_error.pc, password_error.exit_status, attempts, password, enc)

\* get_password: continue, back to "while attempts < max_attempts" with a attempts
\* made; the loop ends with ValueError
Continue(a) ==
    IF attempts_left(a)
    THEN Goto("EnterPassword", exit_status, a, password, enc)
    ELSE Goto(password_error.pc, password_error.exit_status, a, password, enc)

\* get_password_with_strength_check returns pw; get_secure_password_for_diary
\* returns the encryption object and main goes on to DiaryGenerator(year, enc)
ReturnPassword(pw) ==
    Goto("Configuring", exit_status, attempts, pw, create_high_security_encryption(pw))

\* main up to the first password prompt: font registration, which succeeds or
\* fails (fonts_ok), the argument checks, the call of
\* get_secure_password_for_diary and of get_password
Main ==
    /\ pc = "Start"
    /\ \E fonts_ok \in BOOLEAN :
         IF ~fonts_ok THEN Exit(1)
         ELSE IF Len(argv) # 1 THEN Exit(1)
         ELSE IF ~int(argv[1]).ok THEN Exit(1)
         ELSE IF ~year_in_range(int(argv[1]).value) THEN Exit(1)
         ELSE Goto("EnterPassword", exit_status, 0, password, enc)
    /\ UNCHANGED << build_vars, wrap, argv, prompts >>

\* get_password: one pass of the loop up to the first getpass
EnterPassword(entry) ==
    /\ pc = "EnterPassword"
    /\ prompts < MaxPrompts
    /\ prompts' = prompts + 1
    /\ CASE entry.kind = "KeyboardInterrupt" ->
              Goto(password_error.pc, password_error.exit_status, attempts_after(attempts),
                   password, enc)
         [] entry.kind = "EOFError" -> Continue(attempts_after(attempts))
         [] entry.kind = "text" /\ Len(entry.text) < min_length -> Continue(attempts_after(attempts))
         [] entry.kind = "text" /\ Len(entry.text) >= min_length
              /\ strip(entry.text) = "" -> Continue(attempts_after(attempts))
         [] OTHER -> Goto("ConfirmPassword", exit_status, attempts_after(attempts), entry.text, enc)
    /\ UNCHANGED << build_vars, wrap, argv >>

\* get_password: the "Confirm password" getpass and, when it matches, the
\* strength check of get_password_with_strength_check
ConfirmPassword(entry) ==
    /\ pc = "ConfirmPassword"
    /\ CASE entry.kind = "KeyboardInterrupt" -> RaiseValueError
         [] entry.kind = "EOFError" -> Continue(attempts)
         [] entry.kind = "text" /\ entry.text # password -> Continue(attempts)
         [] OTHER -> IF validate_password_strength(password)
                     THEN ReturnPassword(password)
                     ELSE Goto("StrengthChoice", exit_status, attempts, password, enc)
    /\ UNCHANGED << build_vars, wrap, argv, prompts >>

\* get_password_with_strength_check: the answer to "Continue with this
\* password? (y/n/r for retry)"; a retry calls get_password again
ChooseContinue(entry) ==
    /\ pc = "StrengthChoice"
    /\ LET choice == strip(lower(entry.text))
       IN  CASE entry.kind = "KeyboardInterrupt" -> Exit(130)
             [] entry.kind = "EOFError" -> Exit(1)
             [] entry.kind = "text" /\ accepts(choice) -> ReturnPassword(password)
             [] entry.kind = "text" /\ declines(choice) ->
                  Goto("EnterPassword", exit_status, 0, password, enc)
             [] OTHER -> Goto("StrengthChoice", exit_status, attempts, password, enc)
    /\ UNCHANGED << build_vars, wrap, argv, prompts >>

EnterAny == \E entry \in PasswordEntries : EnterPassword(entry)

ConfirmAny == \E entry \in PasswordEntries : ConfirmPassword(entry)

EnterSample == \E entry \in SamplePasswordEntries : EnterPassword(entry)

ConfirmSample == \E entry \in SamplePasswordEntries : ConfirmPassword(entry)

Choose == \E entry \in ChoiceEntries : ChooseContinue(entry)

\* main: generator = DiaryGenerator(year, enc)
ConfigureRun ==
    /\ pc = "Configuring"
    /\ Configure(int(argv[1]).value)

\* main from the command line to the password
NextPassword ==
    \/ Main
    \/ EnterAny
    \/ ConfirmAny
    \/ Choose

\* main from the command line to the saved file
NextRun ==
    \/ Main
    \/ EnterSample
    \/ ConfirmSample
    \/ Choose
    \/ ConfigureRun
    \/ CreateCoverPage
    \/ CreateMonthPage
    \/ CreateDayPage
    \/ Save

\* a caller is about to call wrap_text with arguments from the input sets
InitWrap ==
    /\ pc = "Configuring"
    /\ NotConstructed
    /\ CalledDirectly
    /\ personal_info_manager = FALSE
    /\ themed = NoThemed
    /\ wrap \in [ text : WrapTexts, max_width : WrapWidths,
                  font_size : WrapFontSizes, lines : {<<>>}, returned : {FALSE} ]

\* DiaryGenerator.wrap_text returns
WrapText ==
    /\ ~wrap.returned
    /\ wrap' = [wrap EXCEPT !.lines = wrap_text(wrap.text, wrap.max_width,
                                                wrap.font_size),
                            !.returned = TRUE]
    /\ UNCHANGED << generator_vars, main_vars >>

\* a full build, for the years of DiaryYears
Spec == Init /\ [][Next]_vars

\* construction of the generator (and its holiday table) for every valid year
SpecHolidays == Init /\ [][ConfigureAny]_vars

\* builds of a leap year and a common year, the personal-info pages included
SpecPersonal == Init /\ [][NextPersonal]_vars

\* credential acquisition
SpecPassword == InitMain /\ [][NextPassword]_vars

\* whole runs of main
SpecRun == InitMain /\ [][NextRun]_vars

\* wrap_text applied to each input
SpecWrap == InitWrap /\ [][WrapText]_vars

\* a fresh generator and successive calls of get_unique_quote
SpecQuotes == Init /\ [][NextQuotes]_vars

\* a build of the patched generator that generates the personal-info pages
SpecIntegrated == InitIntegrated /\ [][NextPersonal]_vars

\* generate_diary wrapped by modify_generate_diary: the wrapper sets
\* self.personal_info_manager and calls the original method, which generates
\* the cover, month and day pages and no personal-info page
NextDecorated ==
    \/ ConfigureSample
    \/ CreateCoverPage
    \/ CreateMonthPage
    \/ CreateDayPage
    \/ Save

\* a build of the generator patched with both PersonalInfoIntegration decorators
SpecDecorated == InitIntegrated /\ [][NextDecorated]_vars

\* the same page of the diary of the same year is about to be drawn by two runs,
\* one started in month today[1] and one in month today[2], of a generator
\* with or without the personal-info tab in draw_month_tabs
InitTheming ==
    /\ pc = "Configuring"
    /\ NotConstructed
    /\ CalledDirectly
    /\ wrap = NoWrap
    /\ personal_info_manager \in BOOLEAN
    /\ themed \in [ id : ThemedPages, year : {2000, 2023}, today : (1..12) \X (1..12),
                    seasons : {<<>>}, drawn : {FALSE} ]

\* both runs draw the page
DrawTwice ==
    /\ ~themed.drawn
    /\ themed' = [themed EXCEPT
                    !.seasons = << page_seasons(themed.id, themed.year, themed.today[1]),
                                   page_seasons(themed.id, themed.year, themed.today[2]) >>,
                    !.drawn = TRUE]
    /\ UNCHANGED << pc, year, holidays, quotes_used, use_images, month, day,
                    day_count, total_days, page, background, pages, bookmarks,
                    linked, saved, quote_log, wrap, main_vars, personal_info_manager >>

\* one page drawn by two runs
SpecTheming == InitTheming /\ [][DrawTwice]_vars

(***************************************************************************)
(* Properties                                                              *)
(***************************************************************************)

\* number of bookmarkPage calls that named anchor a
Declared(a) == Cardinality({i \in DOMAIN bookmarks : bookmarks[i] = a})

\* the anchor a page is known by
OwnAnchor(p) ==
    IF p.kind = "cover" THEN "cover"
    ELSE IF p.kind = "personal" THEN "personal_info_" \o ToString(p.day)
    ELSE IF p.kind = "month" THEN "month_" \o ToString(p.month)
    ELSE "day_" \o ToString(p.month) \o "_" \o ToString(p.day)

AllMonthAnchors ==
    { "month_1", "month_2", "month_3", "month_4", "month_5", "month_6",
      "month_7", "month_8", "month_9", "month_10", "month_11", "month_12" }

\* the Gregorian rule as the specification words it
GregorianLeap(y) == y % 4 = 0 /\ ~(y % 100 = 0 /\ y % 400 # 0)

DayPagesOf(m) == {i \in DOMAIN pages : pages[i][1] = "day" /\ pages[i][2] = m}

DayPageCount == Cardinality({i \in DOMAIN pages : pages[i][1] = "day"})

\* C1: in a finished build the declared anchors are pairwise distinct, and the
\* anchor of every month page and of every day page generated is declared by
\* exactly one bookmarkPage call.
AnchorsUnique ==
    pc = "Done" =>
      /\ \A i, j \in DOMAIN bookmarks : i # j => bookmarks[i] # bookmarks[j]
      /\ \A m \in 1..12 : Declared("month_" \o ToString(m)) = 1
      /\ \A k \in DOMAIN pages :
           pages[k][1] \in {"month", "day"} =>
             Declared(OwnAnchor([kind |-> pages[k][1], month |-> pages[k][2],
                                 day |-> pages[k][3]])) = 1

AnchorsUniqueWitness ==
    /\ pc = "Done"
    /\ year = 2024
    /\ Len(bookmarks) = 378
    /\ Declared("day_1_11") = 1
    /\ Declared("day_11_1") = 1

\* C2: when the build is finished every link target any page emitted is an
\* anchor declared by exactly one page: forward references are resolved and no
\* target lies outside the declared anchors.
LinksResolved ==
    pc = "Done" => \A t \in linked : Declared(t) = 1

LinksResolvedWitness ==
    /\ pc = "Done"
    /\ "month_12" \in linked
    /\ "day_12_31" \in linked
    /\ Cardinality(linked) = 12 + DayPageCount

\* C3: the page just emitted never links to its own anchor, neither to the
\* anchor it declared nor to the one it is known by.
NoSelfLink ==
    page.kind # "none" =>
      /\ OwnAnchor(page) \notin Range(page.links)
      /\ \A i \in DOMAIN page.bookmarks : page.bookmarks[i] \notin Range(page.links)

NoSelfLinkWitness ==
    /\ page.kind = "month"
    /\ page.month = 7
    /\ page.bookmarks = <<"month_7">>
    /\ "month_6" \in Range(page.links)
    /\ "month_8" \in Range(page.links)

\* the n-th page of the fixed order: cover, months 1..12, days by month and day
RECURSIVE NthDay(_, _, _)
NthDay(y, m, n) ==
    LET len == 28 + (IF m \in {1, 3, 5, 7, 8, 10, 12} THEN 3
                     ELSE IF m = 2 THEN (IF GregorianLeap(y) THEN 1 ELSE 0)
                     ELSE 2)
    IN  IF m > 12 THEN <<"past the end", 0, 0>>
        ELSE IF n <= len THEN <<"day", m, n>>
        ELSE NthDay(y, m + 1, n - len)

NthPage(y, n) ==
    IF n = 1 THEN <<"cover", 0, 0>>
    ELSE IF n <= 13 THEN <<"month", n - 1, 0>>
    ELSE NthDay(y, 1, n - 13)

\* C4: pages are emitted in the fixed order, none skipped, repeated or out of
\* place (the n-th page emitted is the n-th page of the order), and the
\* document is saved only when the page after the last emitted one would be
\* past the end of the order.
FixedPageOrder ==
    /\ pages # <<>> => pages[Len(pages)] = NthPage(year, Len(pages))
    /\ saved => /\ pages # <<>>
                /\ pages[Len(pages)][1] = "day"
                /\ NthPage(year, Len(pages) + 1)[1] = "past the end"
                /\ \A n \in DOMAIN pages : pages[n] = NthPage(year, n)

FixedPageOrderWitness ==
    /\ saved
    /\ Len(pages) > 13
    /\ pages[1] = <<"cover", 0, 0>>
    /\ pages[13] = <<"month", 12, 0>>
    /\ pages[14] = <<"day", 1, 1>>
    /\ pages[Len(pages)] = <<"day", 12, 31>>

\* C5: once the day loop has ended, the number of day pages is 366 in a
\* Gregorian leap year and 365 otherwise, the build has 13 more pages than
\* that (379 for 2024), and total_days is the number of day pages emitted.
DayCountMatchesYear ==
    pc \in {"Finalizing", "Done"} =>
      /\ DayPageCount = (IF GregorianLeap(year) THEN 366 ELSE 365)
      /\ Len(pages) = 13 + DayPageCount
      /\ year = 2024 => Len(pages) = 379
      /\ total_days = DayPageCount
      /\ day_count = DayPageCount
      /\ 1 + 12 + total_days = Len(pages)

DayCountWitness ==
    /\ pc = "Done"
    /\ year = 2024
    /\ total_days = 366
    /\ Len(pages) = 379

\* the length of month m of year y, from the Gregorian rule
MonthLength(y, m) ==
    IF m = 2 THEN (IF GregorianLeap(y) THEN 29 ELSE 28)
    ELSE IF m \in {4, 6, 9, 11} THEN 30
    ELSE 31

DayAnchorsOf(y, m) ==
    {"day_" \o ToString(m) \o "_" \o ToString(d) : d \in 1..MonthLength(y, m)}

\* C6: the links of month page m are exactly the other eleven month anchors
\* and day_m_d for every day d of the month, each day link once; in the
\* finished build the day anchors declared for a month are those same targets,
\* so day_2_29 is linked exactly when a Feb 29 page was generated.
MonthPageLinks ==
    /\ page.kind = "month" =>
         /\ Range(page.links) =
              (AllMonthAnchors \ {"month_" \o ToString(page.month)})
                 \cup DayAnchorsOf(year, page.month)
         /\ Len(page.links) = 11 + MonthLength(year, page.month)
    /\ pc = "Done" =>
         /\ \A m \in 1..12 :
              {OwnAnchor([kind |-> "day", month |-> m, day |-> pages[i][3]])
                  : i \in DayPagesOf(m)} = DayAnchorsOf(year, m)
         /\ linked \ AllMonthAnchors = UNION {DayAnchorsOf(year, m) : m \in 1..12}
         /\ ("day_2_29" \in linked) <=> (<<"day", 2, 29>> \in Range(pages))
         /\ ("day_2_29" \in linked) <=> ("day_2_29" \in Range(bookmarks))
         /\ ("day_2_29" \in linked) <=> GregorianLeap(year)

MonthPageLinksWitness ==
    /\ page.kind = "month"
    /\ page.month = 2
    /\ year = 2024
    /\ "day_2_29" \in Range(page.links)
    /\ Len(page.links) = 40

\* C7: the cover page links to each of the twelve months, once each, and draws
\* no tab as the current one.
CoverPageLinks ==
    page.kind = "cover" =>
      /\ Range(page.links) = AllMonthAnchors
      /\ Len(page.links) = 12
      /\ page.highlighted = {}

CoverPageLinksWitness ==
    /\ page.kind = "cover"
    /\ pages = << <<"cover", 0, 0>> >>
    /\ "month_1" \in Range(page.links)
    /\ "month_12" \in Range(page.links)

\* C8 as stated: a day page links to all twelve months, its own included,
\* highlights no tab and emits no day link.
DayPageLinksAllMonths ==
    page.kind = "day" =>
      /\ Range(page.links) = AllMonthAnchors
      /\ page.highlighted = {}

\* C8, amended: a day page (m, d) links to the eleven months other than m,
\* once each, draws the tab of m as the current one without a link, and emits
\* no day link.
DayPageLinks ==
    page.kind = "day" =>
      /\ Range(page.links) = AllMonthAnchors \ {"month_" \o ToString(page.month)}
      /\ Len(page.links) = 11
      /\ page.highlighted = {page.month}

DayPageLinksWitness ==
    /\ page.kind = "day"
    /\ page.month = 3
    /\ page.day = 14
    /\ "month_3" \notin Range(page.links)
    /\ "month_4" \in Range(page.links)

\* the dates the holiday table gives a name
DatesNamed(name) == {dt \in DOMAIN holidays : holidays[dt] = name}

HolidayNames ==
    { "New Year's Day", "Independence Day", "Veterans Day", "Christmas Day",
      "Martin Luther King Jr. Day", "Presidents Day", "Memorial Day",
      "Labor Day", "Columbus Day", "Thanksgiving Day" }

\* C9: for every year the table has exactly 10 dates, all valid dates of that
\* year, every one of the ten names on exactly one date (nothing overwritten),
\* and Jan 1 is New Year's Day.
TenHolidays ==
    pc # "Configuring" =>
      /\ pc # "Aborted"
      /\ Cardinality(DOMAIN holidays) = 10
      /\ \A dt \in DOMAIN holidays : dt[1] = year /\ ValidDate(dt)
      /\ \A n \in HolidayNames : Cardinality(DatesNamed(n)) = 1
      /\ <<year, 1, 1>> \in DOMAIN holidays
      /\ holidays[<<year, 1, 1>>] = "New Year's Day"

\* a year whose Jan 1 is a Monday
TenHolidaysWitness ==
    /\ pc = "GeneratingCover"
    /\ year = 2024
    /\ holidays[<<2024, 1, 1>>] = "New Year's Day"
    /\ holidays[<<2024, 1, 15>>] = "Martin Luther King Jr. Day"
    /\ holidays[<<2024, 11, 28>>] = "Thanksgiving Day"

\* C10: Memorial Day is the last Monday of May: a Monday, in May, with no
\* Monday of May after it.
MemorialDayLastMonday ==
    pc # "Configuring" =>
      \A dt \in DatesNamed("Memorial Day") :
        /\ dt[2] = 5
        /\ weekday(dt) = 0
        /\ dt[3] + 7 > 31

\* the date named is the n-th occurrence of weekday wd in month m of the year:
\* that weekday, on one of the days 7(n-1)+1 .. 7n of the month
NthWeekdayOfMonth(name, n, wd, m) ==
    /\ DatesNamed(name) # {}
    /\ \A dt \in DatesNamed(name) :
         /\ dt[1] = year
         /\ dt[2] = m
         /\ weekday(dt) = wd
         /\ dt[3] \in (7 * (n - 1) + 1)..(7 * n)

\* C11: for every year MLK Day is the 3rd Monday of January, Presidents Day
\* the 3rd Monday of February, Labor Day the 1st Monday of September, Columbus
\* Day the 2nd Monday of October and Thanksgiving the 4th Thursday of
\* November, and no date.replace leaves its month (the table is built).
FloatingHolidays ==
    pc # "Configuring" =>
      /\ pc # "Aborted"
      /\ NthWeekdayOfMonth("Martin Luther King Jr. Day", 3, 0, 1)
      /\ NthWeekdayOfMonth("Presidents Day", 3, 0, 2)
      /\ NthWeekdayOfMonth("Labor Day", 1, 0, 9)
      /\ NthWeekdayOfMonth("Columbus Day", 2, 0, 10)
      /\ NthWeekdayOfMonth("Thanksgiving Day", 4, 3, 11)

\* a year whose Nov 1 is a Friday: the first Thursday is Nov 7
FloatingHolidaysWitness ==
    /\ pc = "GeneratingCover"
    /\ year = 2024
    /\ DatesNamed("Thanksgiving Day") = {<<2024, 11, 28>>}
    /\ DatesNamed("Labor Day") = {<<2024, 9, 2>>}
    /\ DatesNamed("Columbus Day") = {<<2024, 10, 14>>}
    /\ DatesNamed("Presidents Day") = {<<2024, 2, 19>>}

\* the season of each month, January first
SeasonTable ==
    << "winter", "winter", "spring", "spring", "spring", "summer",
       "summer", "summer", "autumn", "autumn", "autumn", "winter" >>

\* C16: the season is defined for every month 1..12 and is the one of the
\* table (12, 1, 2 winter; 3, 4, 5 spring; 6, 7, 8 summer; 9, 10, 11 autumn),
\* and on every page drawn the season of the palette is the season of the
\* background.
SeasonOfMonth ==
    /\ \A m \in 1..12 :
         /\ get_season(m) = SeasonTable[m]
         /\ get_season_from_month(m) = get_season(m)
    /\ page.kind \in {"month", "day"} =>
         /\ page.palette = SeasonTable[page.month]
         /\ background.season = page.palette

SeasonOfMonthWitness ==
    /\ page.kind = "day"
    /\ page.month = 12
    /\ page.palette = "winter"
    /\ background.season = "winter"

\* the quotes returned by calls a..b
Returned(a, b) == {quote_log[i] : i \in a..b}

\* C12: on a fresh generator the first N calls of get_unique_quote (N the
\* length of WISDOM_QUOTES) return pairwise distinct quotes, quotes_used holds
\* exactly the quotes returned, and after the N-th call it is the whole list.
FirstCycleDistinct ==
    LET N == Len(WISDOM_QUOTES)
        j == Len(quote_log)
    IN  (j >= 1 /\ j <= N) =>
          /\ \A a, b \in 1..j : a # b => quote_log[a] # quote_log[b]
          /\ quotes_used = Returned(1, j)
          /\ j = N => quotes_used = Range(WISDOM_QUOTES)

FirstCycleDistinctWitness ==
    /\ Len(quote_log) = Len(WISDOM_QUOTES)
    /\ quote_log[1] = WISDOM_QUOTES[Len(WISDOM_QUOTES)]
    /\ quotes_used = Range(WISDOM_QUOTES)

\* C13: the rotation restarts after exhaustion: the calls k*N+1 .. (k+1)*N
\* return every quote exactly once, the call after an exhaustion leaves only
\* its own quote in quotes_used, which may be any quote of the list, and after
\* the j-th call quotes_used has ((j-1) mod N) + 1 elements, all from the list.
RotationRestarts ==
    LET N == Len(WISDOM_QUOTES)
        j == Len(quote_log)
    IN  /\ \A k \in 0..(MaxQuoteCalls \div N) :
             (k + 1) * N <= j =>
               /\ Returned(k * N + 1, (k + 1) * N) = Range(WISDOM_QUOTES)
               /\ \A a, b \in (k * N + 1)..((k + 1) * N) :
                    a # b => quote_log[a] # quote_log[b]
        /\ j >= 1 =>
             /\ Cardinality(quotes_used) = ((j - 1) % N) + 1
             /\ quotes_used \subseteq Range(WISDOM_QUOTES)
             /\ quotes_used = Returned(j - ((j - 1) % N), j)
        /\ (j >= 1 /\ j % N = 0 /\ j < MaxQuoteCalls /\ pc = "GeneratingCover") =>
             \A q \in Range(WISDOM_QUOTES) : ENABLED ReturnQuote(q)

\* the first call of the second cycle repeats the last quote of the first
RotationRestartsWitness ==
    LET N == Len(WISDOM_QUOTES)
    IN  /\ Len(quote_log) = N + 2
        /\ quote_log[N + 1] = quote_log[N]
        /\ Cardinality(quotes_used) = 2

\* the words of lines i.. in order
RECURSIVE WordsOfLines(_, _)
WordsOfLines(lines, i) ==
    IF i > Len(lines) THEN <<>> ELSE split(lines[i]) \o WordsOfLines(lines, i + 1)

LineFits(line) == Len(line) * wrap.font_size * 6 <= wrap.max_width * 10

\* C14 as stated: for every text, max_width and font_size every line returned
\* by wrap_text satisfies len(line) * font_size * 6 <= max_width * 10.
WrapLinesWithinWidth ==
    wrap.returned => \A i \in 1..Len(wrap.lines) : LineFits(wrap.lines[i])

\* C14, amended: every returned line of two or more words satisfies
\* len(line) * font_size * 6 <= max_width * 10; a line exceeds the budget only
\* when it is a single word of the input that exceeds it alone, and every such
\* word is returned as a line of its own; so all lines are within the budget
\* when every word is, as for the quote wrapped at (400, 12).
WrapLinesWithinWidthUnlessLongWord ==
    wrap.returned =>
      LET words == split(wrap.text)
          long(w) == ~LineFits(w)
      IN  /\ \A i \in 1..Len(wrap.lines) :
                \/ LineFits(wrap.lines[i])
                \/ /\ split(wrap.lines[i]) = <<wrap.lines[i]>>
                   /\ \E k \in 1..Len(words) : words[k] = wrap.lines[i]
          /\ \A k \in 1..Len(words) :
                long(words[k]) => \E i \in 1..Len(wrap.lines) : wrap.lines[i] = words[k]
          /\ (\A k \in 1..Len(words) : ~long(words[k])) =>
                \A i \in 1..Len(wrap.lines) : LineFits(wrap.lines[i])
          /\ (wrap.text = JourneyQuote /\ wrap.max_width = 400 /\ wrap.font_size = 12) =>
                /\ wrap.lines # <<>>
                /\ \A i \in 1..Len(wrap.lines) : LineFits(wrap.lines[i])

\* a line of two words within the budget next to a word that exceeds it
WrapLongWordWitness ==
    /\ wrap.returned
    /\ wrap.text = "a a ddddd"
    /\ wrap.max_width = 18
    /\ wrap.font_size = 10
    /\ wrap.lines = <<"a a", "ddddd">>

\* C15: wrap_text returns a finite sequence of non-empty lines, each made of
\* whole words of the input separated by single spaces, and the words of the
\* lines in order are exactly the words of text.split().
WrapKeepsWords ==
    wrap.returned =>
      /\ \A i \in 1..Len(wrap.lines) :
            /\ wrap.lines[i] # ""
            /\ split(wrap.lines[i]) # <<>>
            /\ join(split(wrap.lines[i])) = wrap.lines[i]
      /\ WordsOfLines(wrap.lines, 1) = split(wrap.text)
      /\ Len(wrap.lines) <= Len(split(wrap.text))

\* irregular whitespace in the input, three lines returned
WrapKeepsWordsWitness ==
    /\ wrap.returned
    /\ wrap.text = "ddddd\ta\n\nbbb a"
    /\ wrap.max_width = 30
    /\ wrap.font_size = 10
    /\ wrap.lines = <<"ddddd", "a bbb", "a">>

\* the text fields of a page of the document, from its entry in pages
FieldsOfPage(pg) ==
    CASE pg[1] = "day" -> day_page(year, pg[2], pg[3]).fields
      [] pg[1] = "month" -> month_page(year, pg[2]).fields
      [] pg[1] = "personal" -> personal_info_page(pg[3], 1).fields
      [] OTHER -> cover_page.fields

\* the text fields of the document: <<page number, position, name>> for each
DocumentFields ==
    UNION { {<<i, k, FieldsOfPage(pages[i])[k]>> : k \in 1..Len(FieldsOfPage(pages[i]))} :
            i \in 1..Len(pages) }

FieldNames == {f[3] : f \in DocumentFields}

PersonalFieldKeys ==
    personal_info_fields.page1 \o personal_info_fields.page2
      \o <<"personal_additional_notes">>

\* C17: form field keys are unique across the whole document: over all day
\* pages of the year and the three personal-info pages no two emitted fields
\* share a name; activities_MMDD and notes_MMDD are injective in (month, day),
\* never equal each other and never equal one of the 31 personal-info keys,
\* which are pairwise distinct.
FieldKeysUnique ==
    /\ page.fields = (IF pages = <<>> THEN <<>> ELSE FieldsOfPage(pages[Len(pages)]))
    /\ pc = "Done" =>
         LET days == {<<m, d>> \in (1..12) \X (1..31) : d <= days_in_month(year, m)}
             A == {activities_field(md[1], md[2]) : md \in days}
             N == {notes_field(md[1], md[2]) : md \in days}
         IN  /\ Cardinality(FieldNames) = Cardinality(DocumentFields)
             /\ Cardinality(A) = Cardinality(days)
             /\ Cardinality(N) = Cardinality(days)
             /\ A \cap N = {}
             /\ Len(PersonalFieldKeys) = 31
             /\ Cardinality(Range(PersonalFieldKeys)) = 31
             /\ (A \cup N) \cap Range(PersonalFieldKeys) = {}
             /\ FieldNames \subseteq A \cup N \cup Range(PersonalFieldKeys)
             /\ A \cup N \subseteq FieldNames
             /\ personal_anchor(1) \in Range(bookmarks) =>
                  Range(PersonalFieldKeys) \subseteq FieldNames

\* a finished leap-year document with the personal-info pages: 2 * 366 + 31 fields
FieldKeysUniqueWitness ==
    /\ pc = "Done"
    /\ year = 2000
    /\ personal_anchor(3) \in Range(bookmarks)
    /\ Cardinality(DocumentFields) = 763
    /\ activities_field(2, 29) \in FieldNames

\* the argument list is one decimal year between 1900 and 2100
YearArgument == argv \in {<<ToString(y)>> : y \in AllYears}

NothingProduced ==
    /\ pages = <<>>
    /\ bookmarks = <<>>
    /\ ~saved
    /\ year = 0

\* C18: in main a missing argument, a non-integer argument or a year below
\* 1900 or above 2100 ends the run with a non-zero exit status before any
\* password prompt, before the canvas is opened and before any page; every
\* year in 1900..2100, both bounds included, passes the validation.
ArgumentValidation ==
    /\ (pc # "Start" /\ ~YearArgument) =>
          /\ pc = "Exited"
          /\ exit_status # 0
          /\ prompts = 0
          /\ enc = NoEncryption
          /\ NothingProduced
    /\ (prompts > 0 \/ pages # <<>> \/ pc \notin {"Start", "Exited"}) => YearArgument
    /\ pc = "Start" =>
          /\ \A y \in AllYears :
                /\ int(ToString(y)) = [ok |-> TRUE, value |-> y]
                /\ year_in_range(y)
          /\ ~year_in_range(MinYear - 1)
          /\ ~year_in_range(MaxYear + 1)
          /\ YearArgument => ENABLED (Main /\ pc' = "EnterPassword")
          /\ ~YearArgument => ~ENABLED (Main /\ pc' # "Exited")

\* the year after the last accepted one is refused before any prompt
ArgumentValidationWitness ==
    /\ argv = <<"2101">>
    /\ pc = "Exited"
    /\ exit_status = 1
    /\ prompts = 0
    /\ NothingProduced

\* C19 as stated: credential acquisition ends after a number of password
\* prompts bounded by the fixed attempt budget, whatever the user enters.
PromptsWithinBudget == prompts <= max_attempts

\* C19, amended: every call of get_password shows at most max_attempts
\* "Enter password" prompts and then has returned a password of at least
\* min_length characters that is not blank or has failed for good; a prompt is
\* shown only while the call has attempts left.  The budget is that of one
\* call: answering n, no, r or retry after a weak password starts a new call
\* with a full budget, so the prompts of a run are not bounded by it.
PromptsWithinBudgetOfCall ==
    /\ attempts <= max_attempts
    /\ attempts <= prompts
    /\ pc = "EnterPassword" => attempts < max_attempts
    /\ pc \in {"ConfirmPassword", "StrengthChoice"} =>
          /\ attempts \in 1..max_attempts
          /\ Len(password) >= min_length
          /\ strip(password) # ""
    /\ pc = "StrengthChoice" => ~validate_password_strength(password)
    /\ pc = "Configuring" =>
          /\ attempts \in 1..max_attempts
          /\ Len(password) >= min_length
          /\ strip(password) # ""
          /\ enc = create_high_security_encryption(password)
    /\ (pc = "Exited" /\ prompts > 0) =>
          /\ exit_status # 0
          /\ enc = NoEncryption
    /\ (pc = "EnterPassword" /\ attempts = max_attempts - 1 /\ prompts < MaxPrompts) =>
          ~ENABLED (EnterPassword(Typed("ab1")) /\ pc' = "EnterPassword")
    /\ pc = "StrengthChoice" =>
          ENABLED (ChooseContinue(Typed("r")) /\ pc' = "EnterPassword" /\ attempts' = 0)

\* a weak password, a retry, and a strong password at the fourth prompt
PromptsBeyondBudgetWitness ==
    /\ pc = "Configuring"
    /\ prompts = max_attempts + 1
    /\ attempts = 1
    /\ enc = create_high_security_encryption("Tr4vel!Log")

\* C20: no diary is produced without a credential: the canvas is opened and
\* the first page generated only after get_secure_password_for_diary has
\* returned an encryption object, and when the acquisition fails (budget
\* exhausted or entry cancelled) no page is generated and no file is written.
NoDiaryWithoutCredential ==
    /\ (pages # <<>> \/ saved \/ year # 0
          \/ pc \notin {"Start", "EnterPassword", "ConfirmPassword",
                        "StrengthChoice", "Exited"}) =>
          /\ enc # NoEncryption
          /\ enc = create_high_security_encryption(password)
          /\ Len(password) >= min_length
          /\ prompts > 0
          /\ exit_status = 0
    /\ enc = NoEncryption => NothingProduced
    /\ pc = "Exited" =>
          /\ exit_status # 0
          /\ enc = NoEncryption
          /\ NothingProduced
    /\ saved => pc = "Done"

\* the budget is used up by three short entries: status 1 and nothing produced
NoDiaryWithoutCredentialWitness ==
    /\ pc = "Exited"
    /\ argv = <<"2100">>
    /\ attempts = max_attempts
    /\ prompts = max_attempts
    /\ exit_status = 1
    /\ enc = NoEncryption
    /\ NothingProduced

\* a drawImage call has failed on the page just closed
ImageFailedOnPage == page.kind # "none" /\ background.mode = "fallback"

\* C21: when drawing a background image fails on a page, use_images becomes
\* false and stays false, no later page attempts an image draw, the page of
\* the failure gets the generated background of its own season, and the run
\* is not aborted: it stays in generate_diary, where the next page can be
\* drawn, up to the saved document.
ImageFailureFallsBack ==
    /\ [](ImageFailedOnPage =>
            /\ ~use_images
            /\ background.season = get_season_from_month(page.theme)
            /\ page.kind \in {"month", "day"} => background.season = SeasonTable[page.month]
            /\ pc \in {"GeneratingMonths", "GeneratingDays", "Finalizing", "Done"}
            /\ pc \in {"GeneratingMonths", "GeneratingDays"} =>
                  available_quotes(quotes_used) # {}
            /\ pc = "Done" => saved)
    /\ [][(pc # "Configuring" /\ ~use_images) =>
            /\ ~use_images'
            /\ pages' # pages => background'.mode = "generated"]_vars

\* the image of 31 December fails and the document is saved all the same
ImageFailureFallsBackWitness ==
    /\ pc = "Done"
    /\ saved
    /\ ImageFailedOnPage
    /\ page.kind = "day"
    /\ page.month = 12
    /\ background.season = "winter"
    /\ ~use_images

\* the last k elements of a sequence
Suffix(s, k) == SubSeq(s, Len(s) - k + 1, Len(s))

\* C22: on personal-info page n the page indicators link to exactly the other
\* two personal-info pages, "Previous" links to page n-1 only when n > 1,
\* "Next" links to page n+1 only when n < 3, and nothing links to page n itself.
PersonalNavigation ==
    page.kind = "personal" =>
      /\ \A n \in 1..3 :
           LET others == {personal_anchor(k) : k \in (1..3) \ {n}}
           IN  /\ Len(indicator_links(n)) = 2
               /\ Range(indicator_links(n)) = others
               /\ previous_link(n) = (IF n = 1 THEN <<>> ELSE <<personal_anchor(n - 1)>>)
               /\ next_link(n) = (IF n = 3 THEN <<>> ELSE <<personal_anchor(n + 1)>>)
               /\ personal_anchor(n) \notin Range(draw_page_navigation(n))
               /\ Range(draw_page_navigation(n)) \subseteq linked
               /\ Range(draw_page_navigation(n)) \subseteq Range(bookmarks)
      /\ Suffix(page.links, Len(draw_page_navigation(page.day))) =
            draw_page_navigation(page.day)
      /\ Suffix(page.links, 3) =
            <<personal_anchor(1), personal_anchor(2), personal_anchor(2)>>

\* page 3 has just been closed: indicators to pages 1 and 2, "Previous" to 2
PersonalNavigationWitness ==
    /\ page.kind = "personal"
    /\ page.day = 3
    /\ Suffix(page.links, 3) = <<personal_anchor(1), personal_anchor(2), personal_anchor(2)>>
    /\ personal_anchor(3) \in Range(bookmarks)

\* the links of a page of the document, from its entry in pages
LinksOfPage(pg) ==
    CASE pg[1] = "day" -> day_page(year, pg[2], pg[3]).links
      [] pg[1] = "month" -> month_page(year, pg[2]).links
      [] pg[1] = "personal" -> personal_info_page(pg[3], 1).links
      [] OTHER -> cover_page.links

PersonalPagesGenerated == {i \in DOMAIN pages : pages[i][1] = "personal"}

\* C23: with the personal-info tab drawn by draw_month_tabs and the three
\* personal-info pages generated, no page links to itself: the page
\* personal_info_n emits no link to personal_info_n (n = 1 in particular), and
\* the cover, month or day page just emitted links neither to its own anchor nor
\* fails to emit the tab link to personal_info_1.
IntegratedNoSelfLink ==
    personal_info_manager =>
      /\ \A i \in PersonalPagesGenerated :
           personal_anchor(pages[i][3]) \notin Range(LinksOfPage(pages[i]))
      /\ page.kind \in {"cover", "month", "day"} =>
           /\ OwnAnchor(page) \notin Range(page.links)
           /\ personal_anchor(1) \in Range(page.links)

\* C24: the page just emitted declares its own anchor, and that anchor is
\* declared exactly once in the document so far: cover for the cover page,
\* month_m for month page m, day_m_d for day page (m, d).
EveryPageDeclaresOwnAnchor ==
    page.kind # "none" =>
      /\ page.bookmarks = <<OwnAnchor(page)>>
      /\ Declared(OwnAnchor(page)) = 1

\* C25: the finished document of the generator patched with the two
\* PersonalInfoIntegration decorators satisfies the link invariant: every link
\* target emitted, the personal_info_1 target of the tab included, is declared
\* by exactly one bookmarkPage call.
DecoratedLinksResolved ==
    (pc = "Done" /\ personal_info_manager) =>
      /\ personal_anchor(1) \in linked
      /\ Declared(personal_anchor(1)) = 1
      /\ \A t \in linked : Declared(t) = 1

\* an entry get_password rejects at the "Enter password" prompt
RejectedAtEntry(e) ==
    \/ e.kind = "EOFError"
    \/ e.kind = "text" /\ (Len(e.text) < min_length \/ strip(e.text) = "")

\* an entry get_password rejects at the "Confirm password" prompt
RejectedAtConfirmation(e) ==
    \/ e.kind = "EOFError"
    \/ e.kind = "text" /\ e.text # password

\* what a rejection leads to: a new prompt while attempts remain, the failure
\* of the call otherwise, and no credential either way
RejectionOutcome ==
    /\ pc' = IF attempts' < max_attempts THEN "EnterPassword" ELSE "Exited"
    /\ pc' = "Exited" => exit_status' # 0
    /\ enc' = NoEncryption

\* the call ends with an error at once
CallFails ==
    /\ pc' = "Exited"
    /\ exit_status' # 0
    /\ enc' = NoEncryption

\* C26: within one call of get_password every pass of the loop consumes exactly
\* one attempt, whether the entry is rejected at the first prompt (too short,
\* blank, input error) or at the confirmation (mismatch, input error); a
\* rejection is followed by a new prompt while attempts remain and by the
\* failure of the call once max_attempts are used; the counter never exceeds
\* max_attempts; a cancellation at either prompt ends the call with an error at
\* once, whatever attempts remain.
AttemptAccounting ==
    /\ [](attempts \in 0..max_attempts)
    /\ [][\A e \in PasswordEntries :
            /\ EnterPassword(e) =>
                  /\ attempts < max_attempts
                  /\ attempts' = attempts + 1
                  /\ RejectedAtEntry(e) => RejectionOutcome
                  /\ e = KeyboardInterrupt => CallFails
            /\ ConfirmPassword(e) =>
                  /\ attempts' = attempts
                  /\ RejectedAtConfirmation(e) => RejectionOutcome
                  /\ e = KeyboardInterrupt => CallFails]_vars

\* cancelled at the first prompt: the call has failed with two attempts unused
AttemptAccountingWitness ==
    /\ pc = "Exited"
    /\ attempts = 1
    /\ prompts = 1
    /\ exit_status = 1
    /\ enc = NoEncryption

\* C27: the seasons used to draw a page (background, palette, personal-info
\* tab) are a function of the page and the year: two runs for the same year
\* started on different dates theme the page identically, the personal-info
\* pages and the personal-info tab included.
ThemingDeterministic ==
    themed.drawn => themed.seasons[1] = themed.seasons[2]

\* the anchors and the link targets of a page as functions of the year alone
AnchorsOfYear(y) == AllMonthAnchors \cup UNION {DayAnchorsOf(y, m) : m \in 1..12}

TargetsOfYear(y, kind, m) ==
    CASE kind = "cover" -> AllMonthAnchors
      [] kind = "month" ->
           (AllMonthAnchors \ {"month_" \o ToString(m)}) \cup DayAnchorsOf(y, m)
      [] OTHER -> AllMonthAnchors \ {"month_" \o ToString(m)}

\* C28: the declared anchors and the (page, link target) pairs of a standard
\* build are determined by the year: whatever quotes are drawn and whether each
\* background is an image, a fallback after a failed image or generated, the
\* page just emitted has the link targets the year gives it, and the finished
\* document declares the anchors the year gives.
GraphDependsOnYearOnly ==
    /\ page.kind # "none" =>
          Range(page.links) = TargetsOfYear(year, page.kind, page.month)
    /\ pc = "Done" =>
          /\ Range(bookmarks) = AnchorsOfYear(year)
          /\ Len(bookmarks) = Cardinality(AnchorsOfYear(year))
          /\ linked = AnchorsOfYear(year)
          /\ Len(pages) = 1 + Cardinality(AnchorsOfYear(year))

\* a finished build whose image drawing failed on the way has the full graph
GraphDependsOnYearOnlyWitness ==
    /\ pc = "Done"
    /\ year = 2023
    /\ ~use_images
    /\ background.mode = "generated"
    /\ Len(bookmarks) = 377
    /\ Range(page.links) = AllMonthAnchors \ {"month_12"}

\* the targets month page m of the built year links to
MonthTargets(m) == Range(month_page(year, m).links)

\* month page t is reached from a page with link targets L in one hop, or in
\* two hops through another month page; MT[m] are the targets of month page m
MonthReachedFrom(L, MT, t) ==
    \/ month_anchor(t) \in L
    \/ \E m2 \in 1..12 :
         /\ m2 # t
         /\ month_anchor(m2) \in L
         /\ month_anchor(t) \in MT[m2]

\* C29: in the link graph of a finished standard build every month page is
\* reached from every page (cover, month, day) in at most two hops and every
\* day page in one hop more, from its month page; the cover reaches each day
\* page in two hops, cover to month page to day; a day page (m, d), which has
\* no link to month_m, reaches month page m through another month page and
\* from there the days of month m.
LinkGraphConnected ==
    pc = "Done" =>
      LET MT == [m \in 1..12 |-> MonthTargets(m)]
      IN  /\ pages[1][1] = "cover"
          /\ \A m \in 1..12 :
               /\ <<"month", m, 0>> \in Range(pages)
               /\ month_anchor(m) \in Range(cover_page.links)
          /\ \A i \in DOMAIN pages :
               LET L == Range(LinksOfPage(pages[i]))
                   m == pages[i][2]
               IN  /\ \A t \in 1..12 : MonthReachedFrom(L, MT, t)
                   /\ pages[i][1] = "day" =>
                         /\ day_anchor(m, pages[i][3]) \in MT[m]
                         /\ month_anchor(m) \notin L
                         /\ \E m2 \in 1..12 :
                              /\ m2 # m
                              /\ month_anchor(m2) \in L
                              /\ month_anchor(m) \in MT[m2]

\* 29 February 2024: reached from the cover through month_2, and itself
\* without a link to month_2
LinkGraphConnectedWitness ==
    /\ pc = "Done"
    /\ year = 2024
    /\ <<"day", 2, 29>> \in Range(pages)
    /\ "month_2" \in Range(cover_page.links)
    /\ "day_2_29" \in MonthTargets(2)
    /\ "month_2" \notin Range(day_page(2024, 2, 29).links)
    /\ "month_1" \in Range(day_page(2024, 2, 29).links)
    /\ "month_2" \in MonthTargets(1)

\* the password was typed at the first prompt of the pass of the loop that then
\* asked for its confirmation
TypedInThisAttempt ==
    /\ pc = "EnterPassword"
    /\ EnterPassword(Typed(password'))
    /\ Len(password') >= min_length
    /\ strip(password') # ""

\* the second entry of the same attempt is identical to the password
ConfirmedInThisAttempt ==
    /\ pc = "ConfirmPassword"
    /\ ConfirmPassword(Typed(password))
    /\ attempts' = attempts
    /\ password' = password

\* the user answers y or yes (in any case, with blanks around) to "Continue
\* with this password?"
AcceptedByUser ==
    /\ pc = "StrengthChoice"
    /\ \E e \in ChoiceEntries :
         /\ e.kind = "text"
         /\ strip(lower(e.text)) \in {"y", "yes"}
         /\ ChooseContinue(e)

\* C30: the password the credential is built from has passed every check: it
\* has at least min_length characters and is not blank, it was typed and then
\* confirmed by an identical second entry in the same attempt, and it is strong
\* or was accepted with y or yes; the credential is built once, from exactly
\* that password; an answer n, no, r or retry builds no credential and leads to
\* a new entry, which alone can be used afterwards.
CredentialPassedChecks ==
    /\ [](pc \in {"ConfirmPassword", "StrengthChoice", "Configuring"} =>
            /\ Len(password) >= min_length
            /\ strip(password) # "")
    /\ [](enc # NoEncryption =>
            /\ enc = create_high_security_encryption(password)
            /\ enc.userPassword = password)
    /\ [][/\ pc' = "ConfirmPassword" => TypedInThisAttempt
          /\ (pc' = "StrengthChoice" /\ pc # "StrengthChoice") =>
                /\ ConfirmedInThisAttempt
                /\ ~validate_password_strength(password)
          /\ enc' # enc =>
                /\ enc = NoEncryption
                /\ password' = password
                /\ \/ ConfirmedInThisAttempt /\ validate_password_strength(password)
                   \/ AcceptedByUser /\ ~validate_password_strength(password)
          /\ \A e \in ChoiceEntries :
                (ChooseContinue(e) /\ e.kind = "text"
                   /\ strip(lower(e.text)) \in {"n", "no", "r", "retry"}) =>
                  /\ enc' = NoEncryption
                  /\ pc' = "EnterPassword"
                  /\ attempts' = 0]_vars

\* a weak password was declined, and the strong one entered and confirmed in
\* the next call is the one of the credential
CredentialPassedChecksWitness ==
    /\ pc = "Configuring"
    /\ prompts = 2
    /\ attempts = 1
    /\ password = "Tr4vel!Log"
    /\ validate_password_strength(password)
    /\ enc = create_high_security_encryption("Tr4vel!Log")

====
